---- MODULE Spec2Model ----
(***************************************************************************)
(* Model of src/ingestion/gutenberg_downloader.py: the curated catalog,    *)
(* the prefix genre classifier, download_book (skip check, bounded retry   *)
(* loop with backoff) and download_curated_corpus (selection, per-book     *)
(* loop, summary and metadata file).                                       *)
(*                                                                         *)
(* Python values are encoded as follows.  A str is a tuple of one-letter   *)
(* strings, so that str.startswith can be computed.  An optional value is  *)
(* None == <<>> or Some(v) == <<v>>.  A pathlib.Path is the pair           *)
(* <<directory, file name>>, a file name being the pieces of the f-string  *)
(* that builds it.  A file's bytes are abstracted to their length and to   *)
(* where they came from ("disk": present before the run, "net": a response *)
(* body).  The genres argument, a list used only for truthiness and        *)
(* membership, is the set of its elements.                                 *)
(***************************************************************************)
EXTENDS Integers, Sequences, FiniteSets, TLC

(* ------------------------------ bounds -------------------------------- *)

\* Largest --max-books value of a modelled batch run.
MaxBooks == 2

\* Largest `retries` argument of a modelled stand-alone download_book call.
MaxRetries == 4

\* Number of consecutive download_book calls for one book in SpecFetch.
MaxCalls == 2

(* ------------------------- program constants -------------------------- *)

\* gutenberg_downloader.py:125  output_path.stat().st_size > 1000
SkipThreshold == 1000

\* gutenberg_downloader.py:140  len(content) < 500
MinBodySize == 500

\* gutenberg_downloader.py:108  retries: int = 3
DefaultRetries == 3

\* gutenberg_downloader.py:149  e.code == 404
NotFoundCode == 404

\* gutenberg_downloader.py:156  wait = attempt * 2
BackoffFactor == 2

\* gutenberg_downloader.py:164  output_dir: str = "data/raw"
OutputDir == "data/raw"

(* --------------------------- python values ---------------------------- *)

None == <<>>

Some(v) == <<v>>

ValueOf(o) == o[1]

EmptyStr == <<>>

Range(s) == {s[k] : k \in 1..Len(s)}

\* Mutant: the key is compared with the prefix as a whole.
StartsWithWhole(s, prefix) == s = prefix

\* str.startswith
StartsWith(s, prefix) ==
  /\ Len(prefix) <= Len(s)
  /\ \A k \in 1..Len(prefix) : s[k] = prefix[k]

(* ------------------------------ catalog ------------------------------- *)

CURATED_BOOKS ==
  << [key |-> <<"h","u","g","o","_","m","i","s","e","r","a","b","l","e","s","_","t","1">>, id |-> 17489],
     [key |-> <<"h","u","g","o","_","m","i","s","e","r","a","b","l","e","s","_","t","2">>, id |-> 17493],
     [key |-> <<"h","u","g","o","_","n","o","t","r","e","_","d","a","m","e">>, id |-> 2610],
     [key |-> <<"f","l","a","u","b","e","r","t","_","b","o","v","a","r","y">>, id |-> 14155],
     [key |-> <<"f","l","a","u","b","e","r","t","_","e","d","u","c","a","t","i","o","n">>, id |-> 14156],
     [key |-> <<"s","t","e","n","d","h","a","l","_","r","o","u","g","e","_","n","o","i","r">>, id |-> 798],
     [key |-> <<"z","o","l","a","_","g","e","r","m","i","n","a","l">>, id |-> 5711],
     [key |-> <<"z","o","l","a","_","a","s","s","o","m","m","o","i","r">>, id |-> 8600],
     [key |-> <<"z","o","l","a","_","n","a","n","a">>, id |-> 5765],
     [key |-> <<"z","o","l","a","_","b","e","t","e","_","h","u","m","a","i","n","e">>, id |-> 14553],
     [key |-> <<"b","a","l","z","a","c","_","p","e","r","e","_","g","o","r","i","o","t">>, id |-> 5090],
     [key |-> <<"b","a","l","z","a","c","_","i","l","l","u","s","i","o","n","s">>, id |-> 13159],
     [key |-> <<"d","u","m","a","s","_","m","o","n","t","e","_","c","r","i","s","t","o","_","t","1">>, id |-> 17989],
     [key |-> <<"d","u","m","a","s","_","m","o","n","t","e","_","c","r","i","s","t","o","_","t","2">>, id |-> 17990],
     [key |-> <<"d","u","m","a","s","_","t","r","o","i","s","_","m","o","u","s","q","u","e","t","a","i","r","e","s">>, id |-> 13951],
     [key |-> <<"m","a","u","p","a","s","s","a","n","t","_","b","e","l","_","a","m","i">>, id |-> 3790],
     [key |-> <<"m","a","u","p","a","s","s","a","n","t","_","c","o","n","t","e","s">>, id |-> 3090],
     [key |-> <<"p","r","o","u","s","t","_","s","w","a","n","n">>, id |-> 7178],
     [key |-> <<"v","o","l","t","a","i","r","e","_","c","a","n","d","i","d","e">>, id |-> 4650],
     [key |-> <<"l","e","r","o","u","x","_","f","a","n","t","o","m","e","_","o","p","e","r","a">>, id |-> 175],
     [key |-> <<"l","e","r","o","u","x","_","c","h","a","m","b","r","e","_","j","a","u","n","e">>, id |-> 13071],
     [key |-> <<"l","e","r","o","u","x","_","p","a","r","f","u","m","_","d","a","m","e">>, id |-> 13072],
     [key |-> <<"l","e","b","l","a","n","c","_","a","r","s","e","n","e","_","l","u","p","i","n">>, id |-> 6133],
     [key |-> <<"l","e","b","l","a","n","c","_","a","i","g","u","i","l","l","e">>, id |-> 12389],
     [key |-> <<"l","e","b","l","a","n","c","_","8","1","3">>, id |-> 28371],
     [key |-> <<"v","e","r","n","e","_","2","0","0","0","0","_","l","i","e","u","e","s">>, id |-> 5097],
     [key |-> <<"v","e","r","n","e","_","t","o","u","r","_","m","o","n","d","e">>, id |-> 800],
     [key |-> <<"v","e","r","n","e","_","v","o","y","a","g","e","_","c","e","n","t","r","e">>, id |-> 4791],
     [key |-> <<"v","e","r","n","e","_","i","l","e","_","m","y","s","t","e","r","i","e","u","s","e">>, id |-> 9080],
     [key |-> <<"v","e","r","n","e","_","5","_","s","e","m","a","i","n","e","s">>, id |-> 4548],
     [key |-> <<"v","e","r","n","e","_","t","e","r","r","e","_","l","u","n","e">>, id |-> 799],
     [key |-> <<"m","a","u","p","a","s","s","a","n","t","_","h","o","r","l","a">>, id |-> 14063] >>

GENRES ==
  << [prefix |-> <<"h","u","g","o">>, genre |-> "litterature_generale"],
     [prefix |-> <<"f","l","a","u","b","e","r","t">>, genre |-> "litterature_generale"],
     [prefix |-> <<"s","t","e","n","d","h","a","l">>, genre |-> "litterature_generale"],
     [prefix |-> <<"z","o","l","a">>, genre |-> "litterature_generale"],
     [prefix |-> <<"b","a","l","z","a","c">>, genre |-> "litterature_generale"],
     [prefix |-> <<"d","u","m","a","s">>, genre |-> "litterature_generale"],
     [prefix |-> <<"m","a","u","p","a","s","s","a","n","t","_","b","e","l">>, genre |-> "litterature_generale"],
     [prefix |-> <<"m","a","u","p","a","s","s","a","n","t","_","c","o","n","t","e","s">>, genre |-> "litterature_generale"],
     [prefix |-> <<"p","r","o","u","s","t">>, genre |-> "litterature_generale"],
     [prefix |-> <<"v","o","l","t","a","i","r","e">>, genre |-> "litterature_generale"],
     [prefix |-> <<"l","e","r","o","u","x">>, genre |-> "thriller_policier"],
     [prefix |-> <<"l","e","b","l","a","n","c">>, genre |-> "thriller_policier"],
     [prefix |-> <<"v","e","r","n","e">>, genre |-> "fantasy_sf"],
     [prefix |-> <<"m","a","u","p","a","s","s","a","n","t","_","h","o","r","l","a">>, genre |-> "fantasy_sf"] >>

GenreNames == {"litterature_generale", "thriller_policier", "fantasy_sf"}

\* get_genre: the genre of the first prefix, in dict order, that the key starts with.
RECURSIVE FirstMatch(_, _)
FirstMatch(book_key, k) ==
  IF k > Len(GENRES) THEN "litterature_generale"
  ELSE IF StartsWith(book_key, GENRES[k].prefix) THEN GENRES[k].genre
  ELSE FirstMatch(book_key, k + 1)

get_genre(book_key) == FirstMatch(book_key, 1)

(* ---------------------- download_curated_corpus: selection ------------ *)

\* `if genres:` / `if max_books:` -- None, an empty list and 0 are falsy.
TruthyList(o) == o # None /\ ValueOf(o) # {}

TruthyInt(o) == o # None /\ ValueOf(o) # 0

\* Lines 187-191: the list comprehension keeping the books whose genre is wanted.
FilterByGenre(books, genres) ==
  SelectSeq(books, LAMBDA b : get_genre(b.key) \in ValueOf(genres))

\* Line 194: books_to_download[:max_books] for max_books >= 0.
Truncate(books, n) ==
  SubSeq(books, 1, IF n < Len(books) THEN n ELSE Len(books))

\* Mutant: the cut is made before the genre filter.
SelectBooksTruncateFirst(genres, max_books) ==
  LET all  == CURATED_BOOKS
      cut  == IF TruthyInt(max_books) THEN Truncate(all, ValueOf(max_books)) ELSE all
  IN  IF TruthyList(genres) THEN FilterByGenre(cut, genres) ELSE cut

\* Lines 185-194: the genre filter, then the cut.
SelectBooks(genres, max_books) ==
  LET all      == CURATED_BOOKS
      filtered == IF TruthyList(genres) THEN FilterByGenre(all, genres) ELSE all
  IN  IF TruthyInt(max_books) THEN Truncate(filtered, ValueOf(max_books)) ELSE filtered

(* ------------------------------ file system --------------------------- *)

\* Line 123: output_dir / f"pg{book_id}.txt".
OutputPath(output_dir, id) == <<output_dir, <<"pg", id, ".txt">>>>

\* Line 236: output_path / "metadata.json".
MetadataPath(output_dir) == <<output_dir, <<"metadata.json">>>>

\* Lengths of the files that may be present before a call: at and just above
\* the skip threshold.
DiskLens == {SkipThreshold, SkipThreshold + 1}

DiskFiles == {[len |-> n, from |-> "disk"] : n \in DiskLens}

\* The file systems in which any of the books `ids` may already have a file.
InitialFileSystems(ids) ==
  UNION {[{OutputPath(OutputDir, b) : b \in D} -> DiskFiles] : D \in SUBSET ids}

\* Path.write_bytes: creates or replaces the file.
WriteBytes(files, path, content) ==
  [q \in DOMAIN files \cup {path} |-> IF q = path THEN content ELSE files[q]]

(* -------------------------------- network ----------------------------- *)

\* Lengths of the response bodies the server may send: far below, just below
\* and at the size check, and above the skip threshold.
BodyLens == {50, MinBodySize - 1, MinBodySize, SkipThreshold + 1}

\* What one urlopen + response.read() can do: deliver a body, or raise
\* HTTPError (with a status code), URLError, TimeoutError, or, while the body
\* is being read, an exception that is none of these (ConnectionResetError,
\* http.client.IncompleteRead).
NetResults ==
       {[kind |-> "body", code |-> 200, len |-> n] : n \in BodyLens}
  \cup {[kind |-> "HTTPError", code |-> c, len |-> 0] : c \in {NotFoundCode, 500}}
  \cup {[kind |-> k, code |-> 0, len |-> 0] :
          k \in {"URLError", "TimeoutError", "ConnectionResetError"}}

(* ---------------------------- download_book --------------------------- *)

\* Mutant: a file of exactly the threshold size is skipped too.
AlreadyDownloadedAtThreshold(files, path) ==
  /\ path \in DOMAIN files
  /\ files[path].len >= SkipThreshold

\* Mutant: any existing file is skipped, whatever its size.
AlreadyDownloadedAnySize(files, path) == path \in DOMAIN files

\* Line 125: the file exists and is larger than the skip threshold.
AlreadyDownloaded(files, path) ==
  /\ path \in DOMAIN files
  /\ files[path].len > SkipThreshold

\* Mutant: the loop runs once too often.
InRangeOneMore(a, r) == a <= r + 1

\* Line 129: for attempt in range(1, retries + 1).
InRange(a, r) == a <= r

\* Mutant: the size check is gone.
TooSmallNever(n) == FALSE

\* Line 140: len(content) < 500.
TooSmall(n) == n < MinBodySize

\* Mutant: 404 is handled like any other status.
IsNotFoundNever(code) == FALSE

\* Line 149: e.code == 404.
IsNotFound(code) == code = NotFoundCode

\* Lines 147 and 152: the exceptions download_book catches.
Caught(kind) == kind \in {"HTTPError", "URLError", "TimeoutError"}

\* Line 155: if attempt < retries.
AttemptsRemain(a, r) == a < r

\* Mutant: the wait grows by addition.
BackoffWaitAdded(a) == a + BackoffFactor

\* Line 156: wait = attempt * 2.
BackoffWait(a) == a * BackoffFactor

VARIABLES
  fs,                \* the file system: path -> file, for the files that exist
  fpc,               \* download_book: "idle", "check", "attempt", "backoff", "returned", "raised"
  book_id,           \* download_book's argument
  retries,           \* download_book's argument
  attempt,           \* download_book's loop variable
  ret,               \* download_book's return value: None or Some(path)
  hist,              \* this call's network results, one per urlopen
  slept,             \* this call's backoff sleeps: [after |-> attempt, secs |-> wait]
  writes,            \* this call's write_bytes calls: the lengths written
  fs0,               \* the file system when this call started
  callNo,            \* SpecFetch: the number of this call for the book
  prev,              \* SpecFetch: None, or Some(what the previous call returned and did)
  rpc,               \* download_curated_corpus: "start", "loop", "calling", "delay", "done", "aborted"; "none" in SpecFetch
  genres,            \* argument: None or Some(set of genres)
  max_books,         \* argument: None or Some(n)
  delay,             \* argument
  books_to_download, \* the selection
  i,                 \* enumerate(books_to_download, 1)
  results,           \* list of BookMetadata
  summary,           \* None, or Some([success, total_size]) once computed (lines 228-229)
  metadata_json,     \* the records written to metadata.json, one entry per json.dump
  delays,            \* the courtesy sleeps: the item numbers i they followed
  ended,             \* how the download_book call of each recorded item ended
  genre_key,         \* SpecGenre: get_genre's argument
  genre_of           \* SpecGenre: None, or Some(what get_genre returned)

callVars == <<book_id, retries, attempt, ret, hist, slept, writes, fs0>>

fetchVars == <<fs, fpc, callVars, callNo, prev>>

runVars == <<rpc, genres, max_books, delay, books_to_download, i, results,
             summary, metadata_json, delays, ended>>

genreVars == <<genre_key, genre_of>>

vars == <<fetchVars, runVars, genreVars>>

\* Entry into download_book(id, output_dir, r).
Enter(id, r) ==
  /\ fpc' = "check"
  /\ book_id' = id
  /\ retries' = r
  /\ attempt' = 0
  /\ ret' = None
  /\ hist' = <<>>
  /\ slept' = <<>>
  /\ writes' = <<>>
  /\ fs0' = fs

\* The for statement takes its next value, or the loop ends and line 160 returns None.
NextIteration ==
  /\ attempt' = attempt + 1
  /\ IF InRange(attempt + 1, retries)
       THEN fpc' = "attempt" /\ ret' = ret
       ELSE fpc' = "returned" /\ ret' = None

\* Lines 121-129: the skip check, then the first iteration.
download_book_check ==
  /\ fpc = "check"
  /\ IF AlreadyDownloaded(fs, OutputPath(OutputDir, book_id))
       THEN /\ fpc' = "returned"
            /\ ret' = Some(OutputPath(OutputDir, book_id))
            /\ attempt' = attempt
       ELSE NextIteration
  /\ UNCHANGED <<fs, book_id, retries, hist, slept, writes, fs0, callNo, prev, runVars>>
  /\ UNCHANGED genreVars

\* Lines 137-146: a body that passes the size check is written; the path is returned.
AttemptWritten(r) ==
  /\ r.kind = "body" /\ ~TooSmall(r.len)
  /\ fs' = WriteBytes(fs, OutputPath(OutputDir, book_id), [len |-> r.len, from |-> "net"])
  /\ writes' = Append(writes, r.len)
  /\ ret' = Some(OutputPath(OutputDir, book_id))
  /\ fpc' = "returned"
  /\ UNCHANGED <<attempt, slept>>

\* Lines 140-142: a body below the size check: `continue`.
AttemptTooSmall(r) ==
  /\ r.kind = "body" /\ TooSmall(r.len)
  /\ NextIteration
  /\ UNCHANGED <<fs, writes, slept>>

\* Lines 147-150: HTTPError with code 404 returns None.
AttemptNotFound(r) ==
  /\ r.kind = "HTTPError" /\ IsNotFound(r.code)
  /\ ret' = None
  /\ fpc' = "returned"
  /\ UNCHANGED <<fs, writes, attempt, slept>>

\* Lines 147-153: any other caught exception falls through to line 155.
AttemptFailed(r) ==
  /\ Caught(r.kind)
  /\ ~(r.kind = "HTTPError" /\ IsNotFound(r.code))
  /\ fpc' = "backoff"
  /\ UNCHANGED <<fs, writes, attempt, ret, slept>>

\* An exception no except clause names leaves download_book.
AttemptRaised(r) ==
  /\ r.kind # "body" /\ ~Caught(r.kind)
  /\ fpc' = "raised"
  /\ UNCHANGED <<fs, writes, attempt, ret, slept>>

\* Lines 130-153: one pass through the try statement.
download_book_attempt ==
  /\ fpc = "attempt"
  /\ \E r \in NetResults :
       /\ hist' = Append(hist, r)
       /\ \/ AttemptWritten(r)
          \/ AttemptTooSmall(r)
          \/ AttemptNotFound(r)
          \/ AttemptFailed(r)
          \/ AttemptRaised(r)
  /\ UNCHANGED <<book_id, retries, fs0, callNo, prev, runVars>>
  /\ UNCHANGED genreVars

\* Lines 155-158: the backoff sleep when attempts remain, then the next iteration.
download_book_backoff ==
  /\ fpc = "backoff"
  /\ slept' = IF AttemptsRemain(attempt, retries)
                THEN Append(slept, [after |-> attempt, secs |-> BackoffWait(attempt)])
                ELSE slept
  /\ NextIteration
  /\ UNCHANGED <<fs, book_id, retries, hist, writes, fs0, callNo, prev, runVars>>
  /\ UNCHANGED genreVars

download_book == download_book_check \/ download_book_attempt \/ download_book_backoff

(* ----------------------- download_curated_corpus ---------------------- *)

\* `file_path or ""` / `if file_path`: None and the empty string are falsy.
TruthyStr(o) == o # None /\ ValueOf(o) # EmptyStr

\* Mutant: the error field is never populated.
BookMetadataNoError(id, key, genre, file_path, files) ==
  [book_id          |-> id,
   key              |-> key,
   genre            |-> genre,
   file_path        |-> IF TruthyStr(file_path) THEN ValueOf(file_path) ELSE EmptyStr,
   file_size        |-> IF TruthyStr(file_path) THEN files[ValueOf(file_path)].len ELSE 0,
   download_success |-> file_path # None,
   error            |-> None]

\* Mutant: the size is not read from the file.
BookMetadataNoSize(id, key, genre, file_path, files) ==
  [book_id          |-> id,
   key              |-> key,
   genre            |-> genre,
   file_path        |-> IF TruthyStr(file_path) THEN ValueOf(file_path) ELSE EmptyStr,
   file_size        |-> 0,
   download_success |-> file_path # None,
   error            |-> IF TruthyStr(file_path) THEN None ELSE Some("Download failed")]

\* Lines 214-222: the record built from download_book's return value.
BookMetadata(id, key, genre, file_path, files) ==
  [book_id          |-> id,
   key              |-> key,
   genre            |-> genre,
   file_path        |-> IF TruthyStr(file_path) THEN ValueOf(file_path) ELSE EmptyStr,
   file_size        |-> IF TruthyStr(file_path) THEN files[ValueOf(file_path)].len ELSE 0,
   download_success |-> file_path # None,
   error            |-> IF TruthyStr(file_path) THEN None ELSE Some("Download failed")]

\* Mutant: a failed download is not recorded.
AppendedOnSuccess(rs, metadata) ==
  IF metadata.download_success THEN Append(rs, metadata) ELSE rs

\* Line 223: results.append(metadata).
Appended(rs, metadata) == Append(rs, metadata)

\* Mutant: every record is counted as a success.
CountAll(rs) == Len(rs)

\* Line 228: sum(1 for r in results if r.download_success).
RECURSIVE CountSuccess(_)
CountSuccess(rs) ==
  IF rs = <<>> THEN 0
  ELSE (IF Head(rs).download_success THEN 1 ELSE 0) + CountSuccess(Tail(rs))

\* Line 229: sum(r.file_size for r in results).
RECURSIVE TotalSize(_)
TotalSize(rs) ==
  IF rs = <<>> THEN 0 ELSE Head(rs).file_size + TotalSize(Tail(rs))

\* dataclasses.asdict: a dict with one entry per field of the dataclass.
AsDict(r) ==
  [book_id          |-> r.book_id,
   key              |-> r.key,
   genre            |-> r.genre,
   file_path        |-> r.file_path,
   file_size        |-> r.file_size,
   download_success |-> r.download_success,
   error            |-> r.error]

\* Mutant: only the successful downloads are reported.
AsDictsOfSuccesses(rs) ==
  LET ok == SelectSeq(rs, LAMBDA r : r.download_success)
  IN  [k \in 1..Len(ok) |-> AsDict(ok[k])]

\* Line 238: [asdict(r) for r in results] -- each record as a dict, in list order.
AsDicts(rs) == [k \in 1..Len(rs) |-> AsDict(rs[k])]

\* How a download_book call that returned came to its end, read off its
\* return value and its network results.
Ending(value, results_seen) ==
  IF value # None
    THEN (IF results_seen = <<>> THEN "skipped" ELSE "written")
    ELSE IF results_seen # <<>> /\ results_seen[Len(results_seen)].kind = "HTTPError"
                                /\ IsNotFound(results_seen[Len(results_seen)].code)
           THEN "not found"
           ELSE "exhausted retries"

\* Mutant: the delay is slept after the last book too.
DelayDueAfterLast(n, total, d) == n <= total /\ d > 0

\* Line 225: if i < total and delay > 0.
DelayDue(n, total, d) == n < total /\ d > 0

\* Lines 182-206: the selection; the loop starts.
corpus_select ==
  /\ rpc = "start"
  /\ books_to_download' = SelectBooks(genres, max_books)
  /\ i' = 1
  /\ results' = <<>>
  /\ rpc' = "loop"
  /\ UNCHANGED <<fetchVars, genres, max_books, delay, summary, metadata_json, delays, ended>>
  /\ UNCHANGED genreVars

\* Lines 208-212: the next book; download_book(book_id, output_path) is called
\* with the default number of retries.
corpus_call ==
  /\ rpc = "loop"
  /\ i <= Len(books_to_download)
  /\ Enter(books_to_download[i].id, DefaultRetries)
  /\ rpc' = "calling"
  /\ UNCHANGED <<fs, callNo, prev, genres, max_books, delay, books_to_download, i,
                 results, summary, metadata_json, delays, ended>>
  /\ UNCHANGED genreVars

\* Lines 214-225: download_book has returned: the record is appended.
corpus_record ==
  /\ rpc = "calling"
  /\ fpc = "returned"
  /\ LET key == books_to_download[i].key
     IN  results' = Appended(results,
                      BookMetadata(book_id, key, get_genre(key), ret, fs))
  /\ ended' = Append(ended, Ending(ret, hist))
  /\ fpc' = "idle"
  /\ IF DelayDue(i, Len(books_to_download), delay)
       THEN rpc' = "delay" /\ i' = i
       ELSE rpc' = "loop" /\ i' = i + 1
  /\ UNCHANGED <<fs, callVars, callNo, prev, genres, max_books, delay,
                 books_to_download, summary, metadata_json, delays>>
  /\ UNCHANGED genreVars

\* Line 226: time.sleep(delay).
corpus_delay ==
  /\ rpc = "delay"
  /\ delays' = Append(delays, i)
  /\ i' = i + 1
  /\ rpc' = "loop"
  /\ UNCHANGED <<fetchVars, genres, max_books, delay, books_to_download, results,
                 summary, metadata_json, ended>>
  /\ UNCHANGED genreVars

\* An exception that left download_book leaves download_curated_corpus too:
\* nothing in lines 208-226 catches it.
corpus_raise ==
  /\ rpc = "calling"
  /\ fpc = "raised"
  /\ rpc' = "aborted"
  /\ UNCHANGED <<fetchVars, genres, max_books, delay, books_to_download, i, results,
                 summary, metadata_json, delays, ended>>
  /\ UNCHANGED genreVars

\* Lines 228-241: the loop is over: the summary, metadata.json, return results.
corpus_finish ==
  /\ rpc = "loop"
  /\ i > Len(books_to_download)
  /\ summary' = Some([success |-> CountSuccess(results), total_size |-> TotalSize(results)])
  /\ metadata_json' = Append(metadata_json, AsDicts(results))
  /\ rpc' = "done"
  /\ UNCHANGED <<fetchVars, genres, max_books, delay, books_to_download, i, results, delays, ended>>
  /\ UNCHANGED genreVars

download_curated_corpus ==
  \/ corpus_select
  \/ corpus_call
  \/ corpus_record
  \/ corpus_delay
  \/ corpus_raise
  \/ corpus_finish

(* ------------------------- batch run: Spec ---------------------------- *)

\* The --genres values: absent, or a list over the three choices (line 274);
\* the empty list is what a caller of the function may pass.
GenreArgs == {None} \cup {Some(G) : G \in SUBSET GenreNames}

\* The --max-books values of the modelled runs.
MaxBooksArgs == {Some(n) : n \in 1..MaxBooks}

\* The --delay values: no delay, and the default of 1 second.
DelayArgs == {0, 1}

Ids(books) == {books[k].id : k \in 1..Len(books)}

Init ==
  /\ genres \in GenreArgs
  /\ max_books \in MaxBooksArgs
  /\ delay \in DelayArgs
  /\ fs \in InitialFileSystems(Ids(SelectBooks(genres, max_books)))
  /\ rpc = "start"
  /\ books_to_download = <<>>
  /\ i = 0
  /\ results = <<>>
  /\ summary = None
  /\ metadata_json = <<>>
  /\ delays = <<>>
  /\ ended = <<>>
  /\ fpc = "idle"
  /\ book_id = 0
  /\ retries = 0
  /\ attempt = 0
  /\ ret = None
  /\ hist = <<>>
  /\ slept = <<>>
  /\ writes = <<>>
  /\ fs0 = fs
  /\ callNo = 0
  /\ prev = None
  /\ genre_key = EmptyStr
  /\ genre_of = None

Next == download_curated_corpus \/ download_book

Spec == Init /\ [][Next]_vars

(* --------------------- the selection alone: SpecSelect ---------------- *)

\* Every --max-books value up to one more than the catalog holds, and none.
MaxBooksArgsAll == {None} \cup {Some(n) : n \in 0..(Len(CURATED_BOOKS) + 1)}

InitSelect ==
  /\ genres \in GenreArgs
  /\ max_books \in MaxBooksArgsAll
  /\ delay \in DelayArgs
  /\ fs = <<>>
  /\ rpc = "start"
  /\ books_to_download = <<>>
  /\ i = 0
  /\ results = <<>>
  /\ summary = None
  /\ metadata_json = <<>>
  /\ delays = <<>>
  /\ ended = <<>>
  /\ fpc = "idle"
  /\ book_id = 0
  /\ retries = 0
  /\ attempt = 0
  /\ ret = None
  /\ hist = <<>>
  /\ slept = <<>>
  /\ writes = <<>>
  /\ fs0 = fs
  /\ callNo = 0
  /\ prev = None
  /\ genre_key = EmptyStr
  /\ genre_of = None

NextSelect == corpus_select

SpecSelect == InitSelect /\ [][NextSelect]_vars

(* ------------------ stand-alone download_book: SpecFetch -------------- *)

\* The books of the stand-alone calls: one thriller, one science-fiction title.
FetchIds == {CURATED_BOOKS[20].id, CURATED_BOOKS[27].id}

InitFetch ==
  /\ book_id \in FetchIds
  /\ retries \in 0..MaxRetries
  /\ fs \in InitialFileSystems({book_id})
  /\ fpc = "check"
  /\ attempt = 0
  /\ ret = None
  /\ hist = <<>>
  /\ slept = <<>>
  /\ writes = <<>>
  /\ fs0 = fs
  /\ callNo = 1
  /\ prev = None
  /\ rpc = "none"
  /\ genres = None
  /\ max_books = None
  /\ delay = 0
  /\ books_to_download = <<>>
  /\ i = 0
  /\ results = <<>>
  /\ summary = None
  /\ metadata_json = <<>>
  /\ delays = <<>>
  /\ ended = <<>>
  /\ genre_key = EmptyStr
  /\ genre_of = None

\* The caller calls download_book again for the same book and directory.
call_again ==
  /\ rpc = "none"
  /\ fpc = "returned"
  /\ callNo < MaxCalls
  /\ prev' = Some([ret |-> ret, writes |-> writes])
  /\ callNo' = callNo + 1
  /\ Enter(book_id, retries)
  /\ UNCHANGED <<fs, runVars>>
  /\ UNCHANGED genreVars

NextFetch == download_book \/ call_again

SpecFetch == InitFetch /\ [][NextFetch]_vars

\* download_book runs in one thread whose blocking calls (urlopen with a
\* timeout, time.sleep) all come back: a step that can be taken is taken.
FairSpecFetch == SpecFetch /\ WF_vars(download_book)

(* ----------------------- get_genre alone: SpecGenre ------------------- *)

\* Longest tail appended to a piece of a table prefix to make a key.
MaxTail == 2

\* The letters of the tails: the separator of the keys and two letters.
KeyLetters == {"_", "a", "e"}

Tails == UNION {[1..n -> KeyLetters] : n \in 0..MaxTail}

\* The initial segments of the table's prefixes, the empty one included.
PrefixPieces ==
  UNION {{SubSeq(GENRES[k].prefix, 1, n) : n \in 0..Len(GENRES[k].prefix)} :
           k \in 1..Len(GENRES)}

\* The keys get_genre is applied to: the catalog's, and every piece of a
\* table prefix followed by a tail.
ClassifiedKeys ==
  {CURATED_BOOKS[k].key : k \in 1..Len(CURATED_BOOKS)}
    \cup {p \o [k \in 1..Len(t) |-> t[k]] : p \in PrefixPieces, t \in Tails}

InitGenre ==
  /\ genre_key \in ClassifiedKeys
  /\ genre_of = None
  /\ fs = <<>>
  /\ fpc = "idle"
  /\ book_id = 0
  /\ retries = 0
  /\ attempt = 0
  /\ ret = None
  /\ hist = <<>>
  /\ slept = <<>>
  /\ writes = <<>>
  /\ fs0 = fs
  /\ callNo = 0
  /\ prev = None
  /\ rpc = "none"
  /\ genres = None
  /\ max_books = None
  /\ delay = 0
  /\ books_to_download = <<>>
  /\ i = 0
  /\ results = <<>>
  /\ summary = None
  /\ metadata_json = <<>>
  /\ delays = <<>>
  /\ ended = <<>>

\* Lines 97-105: one call of get_genre.
classify ==
  /\ genre_of = None
  /\ genre_of' = Some(get_genre(genre_key))
  /\ UNCHANGED <<genre_key, fetchVars, runVars>>

NextGenre == classify

SpecGenre == InitGenre /\ [][NextGenre]_vars

(* ================================ claims ============================== *)

ThisPath == OutputPath(OutputDir, book_id)

\* The previous call returned a path after writing a body that passed the size check.
PrevDownloaded ==
  /\ callNo >= 2
  /\ prev # None
  /\ ValueOf(prev).ret # None
  /\ ValueOf(prev).writes # <<>>

\* C1 -- Idempotency of download_book, as the spec states it: once a call has
\* returned a path after writing an accepted body, the next call for the same
\* book and directory makes no network attempt (it never reaches the retry
\* loop) and returns the same path.  (SpecFetch)
C1_SecondCallNoNetwork ==
  PrevDownloaded =>
    /\ hist = <<>>
    /\ fpc \in {"check", "returned"}
    /\ (fpc = "returned" => ret = ValueOf(prev).ret)

\* C2 -- The batch is never aborted by a per-item failure: whatever the
\* network does for a book, download_curated_corpus is never left by an
\* exception: it goes on to the remaining books and returns.  (Spec)
C2_BatchNeverAborted == rpc # "aborted"

\* C3 -- Outcome cardinality and order: the results list always holds one
\* record per book already processed, in selection order, with record k
\* carrying the key and the id of selected book k; when the run returns there
\* is exactly one record per selected book.  (Spec)
C3_OneOutcomePerBook ==
  /\ Len(results) <= Len(books_to_download)
  /\ \A k \in 1..Len(results) :
       /\ results[k].key = books_to_download[k].key
       /\ results[k].book_id = books_to_download[k].id
  /\ (rpc \in {"loop", "delay"} => Len(results) = (IF rpc = "delay" THEN i ELSE i - 1))
  /\ (rpc = "done" => Len(results) = Len(books_to_download))

\* A run that returned with a failed first book and a downloaded second one.
C3_Witness ==
  /\ rpc = "done"
  /\ Len(results) = 2
  /\ ~results[1].download_success
  /\ results[2].download_success
  /\ results[1].key # results[2].key

\* The catalog positions whose key classifies into one of the genres G.
Matching(G) == {j \in 1..Len(CURATED_BOOKS) : get_genre(CURATED_BOOKS[j].key) \in G}

\* The k-th smallest element of a set of positions.
Kth(M, k) == CHOOSE j \in M : Cardinality({m \in M : m <= j}) = k

\* C4 -- Filter composition: for a non-empty genre list G and a positive
\* max_books N, the selection is exactly the first N books, in catalog order,
\* of the catalog filtered by get_genre(key) in G, and the whole filtered
\* list when N exceeds its length: the filter is applied before the cut.
\* (SpecSelect)
C4_FilterThenTruncate ==
  (rpc # "start" /\ TruthyList(genres) /\ TruthyInt(max_books)) =>
    LET M == Matching(ValueOf(genres))
        N == ValueOf(max_books)
    IN  /\ Len(books_to_download) = (IF N < Cardinality(M) THEN N ELSE Cardinality(M))
        /\ \A k \in 1..Len(books_to_download) :
             books_to_download[k] = CURATED_BOOKS[Kth(M, k)]

\* The spec's scenario on the real catalog: one genre and N = 1 select the
\* first thriller (id 175), which is the 20th book of the catalog.
C4_Witness ==
  /\ rpc = "loop"
  /\ genres = Some({"thriller_policier"})
  /\ max_books = Some(1)
  /\ Len(books_to_download) = 1
  /\ books_to_download[1].id = 175
  /\ CURATED_BOOKS[20].id = 175

NotFound(r) == r.kind = "HTTPError" /\ r.code = NotFoundCode

\* C5 -- Not-found short-circuit: a network attempt that fails with HTTP 404
\* is the call's last: download_book has returned None right after it, with
\* no backoff sleep after that attempt and no further attempt, whatever
\* `retries` is and whichever attempt it was; a book that answers 404 from the
\* start sees exactly one attempt.  (SpecFetch)
C5_NotFoundShortCircuit ==
  \A k \in 1..Len(hist) :
    NotFound(hist[k]) =>
      /\ k = Len(hist)
      /\ fpc = "returned"
      /\ ret = None
      /\ \A n \in 1..Len(slept) : slept[n].after < k
      /\ (NotFound(hist[1]) => Len(hist) = 1)

\* A 404 at the second of four allowed attempts ended the call.
C5_Witness ==
  /\ retries = 4
  /\ Len(hist) = 2
  /\ ~NotFound(hist[1])
  /\ NotFound(hist[2])
  /\ fpc = "returned"

\* The failures the retry loop retries: a timeout, a connection failure
\* reported as URLError, an HTTP error other than 404, a body under 500 bytes.
Transient(r) ==
  \/ r.kind \in {"TimeoutError", "URLError"}
  \/ r.kind = "HTTPError" /\ r.code # NotFoundCode
  \/ r.kind = "body" /\ r.len < MinBodySize

Running == fpc \in {"check", "attempt", "backoff"}

Ended == fpc \in {"returned", "raised"}

C7_WriteOnSuccessOnly ==
  /\ Len(writes) <= 1
  /\ writes # <<>> =>
       /\ fpc = "returned"
       /\ ret = Some(ThisPath)
       /\ writes[1] >= MinBodySize
       /\ hist[Len(hist)].kind = "body" /\ hist[Len(hist)].len = writes[1]
       /\ fs[ThisPath] = [len |-> writes[1], from |-> "net"]
  /\ writes = <<>> => fs = fs0
  /\ ((fpc = "returned" /\ ret = None) \/ fpc = "raised") => (writes = <<>> /\ fs = fs0)
  /\ \A q \in (DOMAIN fs \cup DOMAIN fs0) \ {ThisPath} :
       q \in DOMAIN fs /\ q \in DOMAIN fs0 /\ fs[q] = fs0[q]

\* A file of 1000 bytes was present, too small to be skipped; the attempts
\* failed, one of them with an undersized body; the file is as it was.
C7_Witness ==
  /\ fpc = "returned"
  /\ ret = None
  /\ ThisPath \in DOMAIN fs
  /\ fs[ThisPath] = [len |-> SkipThreshold, from |-> "disk"]
  /\ \E k \in 1..Len(hist) : hist[k].kind = "body"

\* The seconds slept between attempt k - 1 and attempt k (0: no sleep).
WaitBefore(k) ==
  IF \E n \in 1..Len(slept) : slept[n].after = k - 1
    THEN (CHOOSE w \in {slept[n].secs : n \in {m \in 1..Len(slept) : slept[m].after = k - 1}} : TRUE)
    ELSE 0

\* C8 -- Backoff monotonicity, as the spec states it: once attempts 1..k have
\* failed transiently and attempt k + 1 is due, the wait before attempt k + 1
\* is strictly greater than the wait before attempt k, for k = 2..retries-1
\* and every mix of transient failures, undersized bodies included.
\* (SpecFetch)
C8_BackoffMonotone ==
  \A k \in 2..(retries - 1) :
    (attempt >= k + 1 /\ Len(hist) >= k /\ \A n \in 1..k : Transient(hist[n]))
      => WaitBefore(k + 1) > WaitBefore(k)

FailureEndings == {"not found", "exhausted retries"}

Succeeded(rs) == {k \in 1..Len(rs) : rs[k].download_success}

RECURSIVE SizeOver(_, _)
SizeOver(rs, K) ==
  IF K = {} THEN 0
  ELSE LET k == CHOOSE x \in K : TRUE
       IN  rs[k].file_size + SizeOver(rs, K \ {k})

\* C10 -- Summary consistency: the success count reported is the number of
\* records with download_success, and the total size reported is the sum of
\* file_size over the successful records, which is also the sum over all
\* records, a failed record contributing 0.  (Spec)
C10_SummaryConsistent ==
  summary # None =>
    /\ ValueOf(summary).success = Cardinality(Succeeded(results))
    /\ ValueOf(summary).total_size = SizeOver(results, Succeeded(results))
    /\ ValueOf(summary).total_size = SizeOver(results, 1..Len(results))
    /\ \A k \in 1..Len(results) : ~results[k].download_success => results[k].file_size = 0

\* A summary over one failed book and one downloaded book of 500 bytes.
C10_Witness ==
  /\ summary = Some([success |-> 1, total_size |-> MinBodySize])
  /\ Len(results) = 2
  /\ ~results[1].download_success
  /\ results[2].download_success

\* The item numbers 1..n as a list.
UpTo(n) == [k \in 1..n |-> k]

\* C11 -- Courtesy delay: with delay > 0 one delay is slept after each
\* recorded book but the last selected one, whatever the book's outcome, and
\* before the next book's download starts; with delay = 0 none is slept.  A
\* run over n books that returns has slept exactly n - 1 delays.  (Spec)
C11_CourtesyDelay ==
  LET n == Len(books_to_download)
      due(k) == IF delay > 0 THEN UpTo(IF k < n THEN k ELSE n - 1) ELSE <<>>
  IN  /\ rpc = "start" => delays = <<>>
      /\ rpc = "loop" => delays = due(i - 1)
      /\ rpc \in {"calling", "aborted"} => delays = due(i - 1)
      /\ rpc = "delay" => (delay > 0 /\ i < n /\ delays = due(i - 1))
      /\ rpc = "done" => (delays = due(n) /\ Len(delays) = (IF delay > 0 THEN n - 1 ELSE 0))

\* A run of two books that slept its one delay after a failed first book, and
\* none after the second.
C11_Witness ==
  /\ rpc = "done"
  /\ delay > 0
  /\ Len(books_to_download) = 2
  /\ ~results[1].download_success
  /\ delays = <<1>>

\* C12 -- A filter argument that is provided is applied, as the spec states
\* it: an empty genres list keeps the books whose genre is in the empty list,
\* that is none, and max_books = 0 keeps the first 0 books, that is none; only
\* an absent (None) argument means no filtering.  (SpecSelect)
C12_ProvidedFilterApplied ==
  rpc # "start" =>
    /\ genres = Some({}) => books_to_download = <<>>
    /\ max_books = Some(0) => books_to_download = <<>>

\* When the call started, a file of more than 1000 bytes was at the destination.
LargeFileAtStart ==
  /\ ThisPath \in DOMAIN fs0
  /\ fs0[ThisPath].len > 1000

\* C13 -- Skip check: when the call starts with a file of more than 1000
\* bytes at the destination path, download_book returns that path having made
\* no network attempt, no backoff sleep and no write, whatever `retries` is;
\* when the file is absent or of 1000 bytes or less, the call goes on to the
\* retry loop: with an attempt allowed, the first network attempt is made, and
\* no path is returned without a download.  (SpecFetch)
C13_SkipCheck ==
  /\ LargeFileAtStart =>
       /\ fpc \in {"check", "returned"}
       /\ hist = <<>> /\ slept = <<>> /\ writes = <<>> /\ fs = fs0
       /\ fpc = "returned" => ret = Some(ThisPath)
  /\ ~LargeFileAtStart =>
       /\ (fpc # "check" /\ retries >= 1) => (hist # <<>> \/ (fpc = "attempt" /\ attempt = 1))
       /\ (fpc = "returned" /\ ret # None) => (hist # <<>> /\ writes # <<>>)
       /\ (fpc = "returned" /\ retries = 0) => ret = None

\* A file of 1001 bytes was present: the first call returned its path at
\* once, although no attempt at all was allowed.
C13_Witness ==
  /\ callNo = 1
  /\ retries = 0
  /\ LargeFileAtStart
  /\ fs0[ThisPath].len = 1001
  /\ fpc = "returned"
  /\ ret = Some(ThisPath)

\* A failure handled by an except clause and followed by the backoff test: a
\* timeout, a connection failure (URLError) or an HTTP error other than 404.
RetriedError(r) ==
  \/ r.kind \in {"TimeoutError", "URLError"}
  \/ r.kind = "HTTPError" /\ r.code # 404

\* The sleeps recorded after attempt k.
SleptAfter(k) == {n \in 1..Len(slept) : slept[n].after = k}

IsPrefix(p, s) == Len(p) <= Len(s) /\ SubSeq(s, 1, Len(p)) = p

\* The table positions whose prefix the key starts with.
MatchingEntries(key) == {k \in 1..Len(GENRES) : IsPrefix(GENRES[k].prefix, key)}

\* The first-match rule, stated on the table: the genre of the matching entry
\* that no matching entry precedes, the general genre when none matches.
GenreByFirstMatch(key) ==
  IF MatchingEntries(key) = {} THEN "litterature_generale"
  ELSE GENRES[CHOOSE k \in MatchingEntries(key) :
                \A j \in MatchingEntries(key) : k <= j].genre

\* C15 -- Outcome field consistency: every record of the results list is
\* either a success, with a non-empty file_path, no error and a file_size
\* equal to the size of the file at file_path, or a failure, with an empty
\* file_path, a file_size of 0 and an error; its genre is the genre its key
\* classifies into.  (Spec)
C15_OutcomeFields ==
  \A k \in 1..Len(results) :
    LET o == results[k]
    IN  /\ o.download_success <=> (o.file_path # EmptyStr /\ o.error = None)
        /\ ~o.download_success <=>
             (o.file_path = EmptyStr /\ o.file_size = 0 /\ o.error # None)
        /\ o.genre = GenreByFirstMatch(o.key)
        /\ o.download_success =>
             /\ o.file_path \in DOMAIN fs
             /\ o.file_size = fs[o.file_path].len
             /\ o.file_path = <<OutputDir, <<"pg", o.book_id, ".txt">>>>

\* A failed thriller and a downloaded thriller of 500 bytes, side by side.
C15_Witness ==
  /\ Len(results) = 2
  /\ ~results[1].download_success
  /\ results[2].download_success
  /\ results[2].file_size = 500
  /\ results[2].genre = "thriller_policier"
  /\ results[1].error = Some("Download failed")

\* The written records are the results, one by one and in the same order.
SameRecords(written, rs) ==
  /\ Len(written) = Len(rs)
  /\ \A k \in 1..Len(rs) :
       /\ written[k].book_id = rs[k].book_id
       /\ written[k].key = rs[k].key
       /\ written[k].genre = rs[k].genre
       /\ written[k].file_path = rs[k].file_path
       /\ written[k].file_size = rs[k].file_size
       /\ written[k].download_success = rs[k].download_success
       /\ written[k].error = rs[k].error

\* C16 -- Report ordering: metadata.json is written at most once, and exactly
\* once in a run that returns; it is written after the record of the last
\* selected book has been appended, and no network attempt, backoff sleep,
\* courtesy delay, record or second write follows it; the records written are
\* the results list, in the same order and of the same length.  (Spec)
C16_ReportWrittenOnceAtEnd ==
  /\ [](/\ Len(metadata_json) <= 1
        /\ (rpc = "done" <=> Len(metadata_json) = 1)
        /\ metadata_json # <<>> =>
             /\ Len(results) = Len(books_to_download)
             /\ SameRecords(metadata_json[1], results)
             /\ fpc = "idle")
  /\ [][metadata_json # <<>> =>
          UNCHANGED <<metadata_json, results, hist, slept, delays, writes, fs>>]_vars

\* The report of a run of two books, a failure followed by a download, holds
\* the two records in that order.
C16_Witness ==
  /\ rpc = "done"
  /\ Len(metadata_json) = 1
  /\ Len(metadata_json[1]) = 2
  /\ ~metadata_json[1][1].download_success
  /\ metadata_json[1][2].download_success
  /\ metadata_json[1][1].key = books_to_download[1].key
  /\ metadata_json[1][2].key = books_to_download[2].key

\* The longest-match rule, stated on the table: the genre of a matching entry
\* whose prefix no matching entry's prefix is longer than.
GenreByLongestMatch(key) ==
  IF MatchingEntries(key) = {} THEN "litterature_generale"
  ELSE GENRES[CHOOSE k \in MatchingEntries(key) :
                \A j \in MatchingEntries(key) :
                  Len(GENRES[j].prefix) <= Len(GENRES[k].prefix)].genre

\* C17 -- Classifier rule: get_genre returns the genre of the first table
\* entry, in declaration order, whose prefix the key starts with, and the
\* general genre when there is none; over the configured table that is also
\* the genre of the longest matching prefix, for every key of the catalog and
\* every key made of a piece of a table prefix and a short tail; so
\* maupassant_horla is fantasy_sf and maupassant_bel_ami litterature_generale.
\* (SpecGenre)
C17_ClassifierRule ==
  genre_of # None =>
    /\ ValueOf(genre_of) = GenreByFirstMatch(genre_key)
    /\ ValueOf(genre_of) = GenreByLongestMatch(genre_key)
    /\ (MatchingEntries(genre_key) = {} => ValueOf(genre_of) = "litterature_generale")
    /\ (genre_key = CURATED_BOOKS[32].key => ValueOf(genre_of) = "fantasy_sf")
    /\ (genre_key = CURATED_BOOKS[16].key => ValueOf(genre_of) = "litterature_generale")

\* maupassant_horla (id 14063), the last book of the catalog, classified.
C17_Witness ==
  /\ CURATED_BOOKS[32].id = 14063
  /\ genre_key = CURATED_BOOKS[32].key
  /\ Len(genre_key) = 16
  /\ genre_of = Some("fantasy_sf")

\* The three classes a network attempt's result falls into.
IsSuccess(r) == r.kind = "body" /\ r.len >= 500

IsPermanentFailure(r) == r.kind = "HTTPError" /\ r.code = 404

IsRetryableFailure(r) == ~IsSuccess(r) /\ ~IsPermanentFailure(r)

\* C18 -- State-machine conformance, as the spec states it: every network
\* attempt ends in Success (a body of at least 500 bytes: the path is
\* returned), in PermanentFailure (a 404: None is returned) or in
\* RetryableFailure (anything else); Success and PermanentFailure are terminal,
\* so only a RetryableFailure has an attempt after it; and a RetryableFailure
\* is followed by another attempt exactly when fewer than `retries` attempts
\* have been made, None being returned otherwise.  (SpecFetch)
C18_StateMachine ==
  /\ \A k \in 1..(Len(hist) - 1) : IsRetryableFailure(hist[k])
  /\ hist # <<>> =>
       LET last == hist[Len(hist)]
       IN  /\ IsSuccess(last) => (fpc = "returned" /\ ret = Some(ThisPath))
           /\ IsPermanentFailure(last) => (fpc = "returned" /\ ret = None)
           /\ (IsRetryableFailure(last) /\ Len(hist) < retries) =>
                \/ fpc = "backoff" /\ attempt = Len(hist)
                \/ fpc = "attempt" /\ attempt = Len(hist) + 1
           /\ (IsRetryableFailure(last) /\ Len(hist) >= retries) =>
                \/ fpc = "backoff" /\ attempt = Len(hist)
                \/ fpc = "returned" /\ ret = None

\* C19 -- Postcondition of success: whenever download_book has returned a
\* path, it is the path pg{book_id}.txt of the output directory, a file exists
\* there and holds at least 500 bytes: more than 1000 bytes, the file found
\* at the start, when the download was skipped, and the whole accepted body
\* when it was downloaded; and no file that download_book wrote is smaller
\* than 500 bytes.  (SpecFetch)
C19_SuccessPostcondition ==
  /\ (fpc = "returned" /\ ret # None) =>
       LET path == <<OutputDir, <<"pg", book_id, ".txt">>>>
       IN  /\ ret = Some(path)
           /\ path \in DOMAIN fs
           /\ fs[path].len >= 500
           /\ hist = <<>> => (fs[path].len > 1000 /\ fs = fs0)
           /\ hist # <<>> =>
                fs[path] = [len |-> hist[Len(hist)].len, from |-> "net"]
  /\ \A q \in DOMAIN fs : fs[q].from = "net" => fs[q].len >= 500
  /\ \A n \in 1..Len(writes) : writes[n] >= 500

\* A download of exactly 500 bytes, the smallest accepted, returned its path.
C19_Witness ==
  /\ fpc = "returned"
  /\ ret = Some(ThisPath)
  /\ writes = <<500>>
  /\ fs[ThisPath] = [len |-> 500, from |-> "net"]
====
